---------------------------- MODULE Spec2Model ----------------------------
(***************************************************************************)
(* Performance-telemetry core of the Game Center (src/unnamed/part_005):   *)
(* FrameTimeTracker, PerformanceMonitor, LatencyTracker and                *)
(* ThreadPoolMonitor.                                                      *)
(*                                                                         *)
(* Numbers.  Instants and durations are whole ticks of the clock, of which *)
(* `resolution` make a millisecond (1 unless said otherwise).  An f64 that *)
(* the code obtains by a division (an average, the FPS, a rate) is kept as *)
(* an exact fraction [n |-> numerator, d |-> denominator], d > 0, in       *)
(* lowest terms; the thresholds 16.67, 33.33 and 16.66 are kept in         *)
(* hundredths.  A cast `as u8` of a non-negative f64 is the floor.         *)
(***************************************************************************)
EXTENDS Integers, Sequences, FiniteSets, TLC

\* ------------------------------------------------------------------ bounds
\* Largest instant the clock reaches, in ms, for a tracker on its own.
MaxTime == 600
\* Largest instant the clock reaches, in ms, for a PerformanceMonitor.
MaxMonitorTime == 300
\* Largest capacity of a frame-time buffer; PerformanceMonitor's tracker has
\* this capacity (the code's 300 scaled down).
MaxSamples == 2
\* Most frames recorded since construction or the last reset() (a tracker on
\* its own, a monitor).
MaxFrames == 3
MaxMonitorFrames == 2
\* Largest max_history of a PerformanceMonitor.
MaxHistory == 2
\* Most snapshots a PerformanceMonitor accepts.
MaxAccepted == 3
\* Most sample() calls of a caller that samples at a fixed spacing.
MaxCalls == 10
\* Largest max_history of a LatencyTracker.
MaxLatencyHistory == 2
\* Most record_ping() calls.
MaxPings == 4
\* Most increment_sent() calls, and most record_packet_loss() calls, next to
\* record_ping() calls.
MaxPackets == 2
\* Most increment_sent() calls, and most record_packet_loss() calls, on their
\* own.
MaxSent == 20
\* Wall-clock milliseconds since the epoch at construction.
EpochMs == 1000
\* Capacity of the buffers whose percentiles are queried, and most samples
\* recorded into one of them.
MaxPercentileSamples == 4
MaxPercentileCalls == 5
\* Largest instant the clock reaches, in ms, and most frames recorded, where
\* the variance of the frame times is looked at.
MaxVarianceTime == 60
MaxVarianceFrames == 3
\* Worker threads of the task pool, and most counter updates they apply.
NumWorkers == 2
MaxUpdates == 3
\* Threads that poll get_metrics(), and the largest instant the clock
\* reaches, in ms, while they do.
NumReaders == 2
MaxLockTime == 200
\* Largest instant the clock reaches, in ms, where the advisor is consulted.
MaxAdvisorTime == 100
\* Largest instant the clock reaches, in ms, and most frames recorded, where
\* the profile of a session is computed.
MaxProfileTime == 1250
MaxProfileFrames == 3
\* Largest instant the clock reaches, in ms, where the queries are called.
MaxQueryTime == 750
\* Most record_draw_call() calls between two begin_frame() calls.
MaxDrawCalls == 2

\* Time that passes between two calls (a tracker on its own, a monitor).
Delays == {30, 500}
MonitorDelays == {50}
\* sampling_rate_ms arguments of PerformanceMonitor::new.
SamplingRates == {100}
\* What the CPU and the memory probe may answer; None is "no data".
None == <<>>
Some(x) == <<x>>
CpuProbe == {None, Some(45)}
MemProbe == {None, Some(60)}

\* ---------------------------------------------------------------- numbers
RECURSIVE GCD(_, _)
GCD(a, b) == IF b = 0 THEN a ELSE GCD(b, a % b)

Abs(x) == IF x < 0 THEN -x ELSE x

\* The f64 n/d (d > 0).
Rat(n, d) ==
    LET g == GCD(Abs(n), d)
    IN  [n |-> n \div g, d |-> d \div g]

Zero == [n |-> 0, d |-> 1]

\* s[lo] + ... + s[hi], halving the range.
RECURSIVE SumRange(_, _, _)
SumRange(s, lo, hi) ==
    IF lo > hi THEN 0
    ELSE IF lo = hi THEN s[lo]
    ELSE LET mid == (lo + hi) \div 2
         IN  SumRange(s, lo, mid) + SumRange(s, mid + 1, hi)

\* iter().sum()
Sum(s) == SumRange(s, 1, Len(s))

Min(a, b) == IF a < b THEN a ELSE b

\* f64 comparison and addition of two fractions.
RatLess(x, y) == x.n * y.d < y.n * x.d

RatAdd(x, y) == Rat(x.n * y.d + y.n * x.d, x.d * y.d)

\* iter().sum() of fractions.
RECURSIVE RatSum(_)
RatSum(s) == IF s = <<>> THEN Zero ELSE RatAdd(Head(s), RatSum(Tail(s)))

\* fold(f64::MAX, f64::min) and fold(f64::MIN, f64::max) over a non-empty
\* sequence of fractions.
RatMin(s) == CHOOSE x \in {s[i] : i \in DOMAIN s} :
                 \A i \in DOMAIN s : ~RatLess(s[i], x)

RatMax(s) == CHOOSE x \in {s[i] : i \in DOMAIN s} :
                 \A i \in DOMAIN s : ~RatLess(x, s[i])

\* ------------------------------------------------------------------ state
VARIABLES
    now,              \* Instant::now(), ms since construction
    op,               \* the operation the last step performed: <<name>>, and
                      \* <<"sample", cpu, mem>> with what the probes answered
                      \* when sample() consulted them
    \* FrameTimeTracker
    frame_times, max_samples, last_frame_time, frame_count,
    last_fps_update, current_fps,
    resolution,       \* ticks of the clock per millisecond
    recorded,         \* history: every frame time recorded since new()/reset()
    \* PerformanceMonitor
    metrics, sampling_rate, last_sample, history, max_history,
    accepted,         \* history: every snapshot sample() has returned
    ret,              \* what the last sample() returned
    lock,             \* the RwLock around metrics: the threads holding it
    threads,          \* where each thread that shares the monitor is in its call
    committed,        \* history: metrics when the write lock was last released
    driver,           \* the caller that samples at a fixed spacing
    \* LatencyTracker
    ping_history, jitter_history, packet_loss, packets_sent,
    packets_received, latency_max_history,
    pinged,           \* history: every latency recorded since new()
    \* ThreadPoolMonitor
    queue_length, active_tasks, completed_tasks, total_tasks,
    workers,          \* each worker thread: idle, or about to update a counter
    applied,          \* history: the increments and decrements applied to
                      \* each counter
    \* GPUPerformanceTracker
    vulkan_device, directx_device,
    gpu_frame_times,  \* GPUPerformanceTracker's frame_times
    vertex_count, triangle_count, draw_calls,
    draws             \* history: the arguments of every record_draw_call()
                      \* since new() or the last begin_frame()

trackerVars == <<frame_times, max_samples, last_frame_time, frame_count,
                 last_fps_update, current_fps, resolution, recorded>>
lockVars == <<lock, threads, committed>>
monitorVars == <<metrics, sampling_rate, last_sample, history, max_history,
                 accepted, ret, lockVars>>
latencyVars == <<ping_history, jitter_history, packet_loss, packets_sent,
                 packets_received, latency_max_history, pinged>>
poolVars == <<queue_length, active_tasks, completed_tasks, total_tasks,
              workers, applied>>
gpuVars == <<vulkan_device, directx_device, gpu_frame_times, vertex_count,
             triangle_count, draw_calls, draws>>
vars == <<now, op, trackerVars, monitorVars, driver, latencyVars, poolVars,
          gpuVars>>

\* ---------------------------------------------------------- ring buffers
\* The mutation of PushBounded that evicts as soon as the buffer is full.
PushBoundedEarly(buf, x, cap) ==
    LET pushed == Append(buf, x)
    IN  IF Len(pushed) >= cap THEN Tail(pushed) ELSE pushed

\* The mutation of PushBounded that evicts the newest element, not the oldest.
PushBoundedNewest(buf, x, cap) ==
    LET pushed == Append(buf, x)
    IN  IF Len(pushed) > cap THEN SubSeq(pushed, 1, Len(pushed) - 1) ELSE pushed

\* buf.push(x); if buf.len() > cap { buf.remove(0); }
PushBounded(buf, x, cap) ==
    LET pushed == Append(buf, x)
    IN  IF Len(pushed) > cap THEN Tail(pushed) ELSE pushed

\* The last k elements of s (all of s when it has fewer).
LastN(s, k) ==
    IF Len(s) <= k THEN s ELSE SubSeq(s, Len(s) - k + 1, Len(s))

\* ------------------------------------------------------ FrameTimeTracker
fps_update_interval == 500

\* FrameTimeTracker::new(n), constructed at instant `now`, on a clock of
\* ticks ticks per millisecond.
TrackerNewAt(n, ticks) ==
    /\ frame_times = <<>>
    /\ max_samples = n
    /\ last_frame_time = now
    /\ frame_count = 0
    /\ last_fps_update = now
    /\ current_fps = Zero
    /\ resolution = ticks
    /\ recorded = <<>>

\* FrameTimeTracker::new(n) on a clock of whole milliseconds.
TrackerNew(n) == TrackerNewAt(n, 1)

\* 0.0 / 0.0
NaN == [n |-> 0, d |-> 0]

\* The mutation of average_frame_time that divides without the guard.
average_frame_time_unguarded ==
    IF frame_times = <<>> THEN NaN
    ELSE Rat(Sum(frame_times), Len(frame_times) * resolution)

\* The mean of the frame times, in ms.
average_frame_time ==
    IF frame_times = <<>> THEN Zero
    ELSE Rat(Sum(frame_times), Len(frame_times) * resolution)

\* The mutation of FramesPerSecond that divides by the milliseconds elapsed.
FramesPerMillisecond(count, elapsed) == Rat(count * resolution, elapsed)

\* The mutation of FramesPerSecond that leaves the current frame out.
FramesPerSecondBefore(count, elapsed) ==
    Rat((count - 1) * 1000 * resolution, elapsed)

\* self.frame_count as f64 / elapsed_secs, elapsed in ticks.
FramesPerSecond(count, elapsed) == Rat(count * 1000 * resolution, elapsed)

RecordFrame(limit) ==
    LET frame_time_ms == now - last_frame_time  \* in ticks
        elapsed       == now - last_fps_update
    IN  /\ Len(recorded) < limit
        /\ frame_times' = PushBounded(frame_times, frame_time_ms, max_samples)
        /\ last_frame_time' = now
        /\ IF elapsed >= fps_update_interval * resolution
           THEN /\ current_fps' = FramesPerSecond(frame_count + 1, elapsed)
                /\ frame_count' = 0
                /\ last_fps_update' = now
           ELSE /\ frame_count' = frame_count + 1
                /\ UNCHANGED <<current_fps, last_fps_update>>
        /\ recorded' = Append(recorded, frame_time_ms)
        /\ UNCHANGED <<max_samples, resolution>>

\* The mutation of TrackerReset that keeps the cached FPS.
TrackerResetKeepsFps ==
    /\ op' = <<"reset", Len(frame_times)>>
    /\ frame_times' = <<>>
    /\ frame_count' = 0
    /\ last_frame_time' = now
    /\ last_fps_update' = now
    /\ recorded' = <<>>
    /\ UNCHANGED <<now, current_fps, max_samples, resolution, monitorVars,
                   driver, latencyVars, poolVars, gpuVars>>

\* reset(); op records how many frame times it cleared.
TrackerReset ==
    /\ op' = <<"reset", Len(frame_times)>>
    /\ frame_times' = <<>>
    /\ frame_count' = 0
    /\ last_frame_time' = now
    /\ last_fps_update' = now
    /\ current_fps' = Zero
    /\ recorded' = <<>>
    /\ UNCHANGED <<now, max_samples, resolution, monitorVars, driver,
                   latencyVars, poolVars, gpuVars>>

TrackerRecordFrame ==
    /\ op' = <<"record_frame">>
    /\ RecordFrame(MaxFrames)
    /\ UNCHANGED <<now, monitorVars, driver, latencyVars, poolVars, gpuVars>>

\* Time passes between two calls.
Advance(delays, limit) ==
    \E d \in delays :
        /\ now + d <= limit
        /\ now' = now + d
        /\ op' = <<"tick">>
        /\ UNCHANGED <<trackerVars, monitorVars, driver, latencyVars, poolVars, gpuVars>>

Tick == Advance(Delays, MaxTime)

MonitorTick == Advance(MonitorDelays, MaxMonitorTime)

\* ----------------------------------------------------- PerformanceMonitor
\* The mutation of DefaultMetrics that starts with a render time of 1 ms.
DefaultMetricsRendered ==
    [timestamp |-> 0, cpu_usage |-> 0, memory_usage |-> 0, gpu_usage |-> 0,
     frame_rate |-> Zero, frame_time_ms |-> Zero, render_time_ms |-> 1,
     update_time_ms |-> 0, input_latency_ms |-> 0, network_latency_ms |-> 0]

\* PerformanceMetrics::default()
DefaultMetrics ==
    [timestamp |-> 0, cpu_usage |-> 0, memory_usage |-> 0, gpu_usage |-> 0,
     frame_rate |-> Zero, frame_time_ms |-> Zero, render_time_ms |-> 0,
     update_time_ms |-> 0, input_latency_ms |-> 0, network_latency_ms |-> 0]

now_millis == EpochMs + now

\* The threads that share a monitor: the render thread (start_frame,
\* end_frame), the sampling thread (sample) and the readers (get_metrics).
Readers == 1..NumReaders
AtRest == [pc |-> "idle", frame_time |-> Zero]

\* RwLock::new(PerformanceMetrics::default()), and no call under way.
LockNew ==
    /\ lock = [writers |-> {}, readers |-> {}]
    /\ threads = [render |-> AtRest, sampler |-> AtRest,
                  reader |-> [r \in Readers |-> AtRest]]
    /\ committed = DefaultMetrics

\* The mutation of MonitorNew that starts with the gate open: the last-sample
\* time is one sampling_rate before the construction.
MonitorNewUnarmed(rate, cap) ==
    /\ metrics = DefaultMetrics
    /\ LockNew
    /\ TrackerNew(MaxSamples)
    /\ sampling_rate = rate
    /\ last_sample = now - rate
    /\ history = <<>>
    /\ max_history = cap
    /\ accepted = <<>>
    /\ ret = None

\* PerformanceMonitor::new(rate, cap), constructed at instant `now`.
MonitorNew(rate, cap) ==
    /\ metrics = DefaultMetrics
    /\ LockNew
    /\ TrackerNew(MaxSamples)
    /\ sampling_rate = rate
    /\ last_sample = now
    /\ history = <<>>
    /\ max_history = cap
    /\ accepted = <<>>
    /\ ret = None

\* A monitor is not constructed: its fields hold the defaults.
NoMonitor ==
    /\ metrics = DefaultMetrics
    /\ LockNew
    /\ sampling_rate = 0
    /\ last_sample = 0
    /\ history = <<>>
    /\ max_history = 0
    /\ accepted = <<>>
    /\ ret = None

\* No caller samples at a fixed spacing.
NoDriver == [spacing |-> 0, first |-> 0, calls |-> 0, waited |-> FALSE]

\* ------------------------------------------------------ the monitor's steps
StartFrame ==
    /\ op' = <<"start_frame">>
    /\ RecordFrame(MaxMonitorFrames)
    /\ UNCHANGED <<now, monitorVars, driver, latencyVars, poolVars, gpuVars>>

EndFrame ==
    /\ op' = <<"end_frame">>
    /\ metrics' = [metrics EXCEPT !.frame_time_ms = average_frame_time,
                                  !.frame_rate = current_fps]
    /\ UNCHANGED <<now, trackerVars, sampling_rate, last_sample, history,
                   max_history, accepted, ret, lockVars, driver, latencyVars,
                   poolVars, gpuVars>>

\* The mutation of GateClosed that also rejects a call made exactly
\* sampling_rate after the last sample.
GateClosedAtRate(elapsed, rate) == elapsed <= rate

\* Instant::now().duration_since(self.last_sample) < self.sampling_rate
GateClosed(elapsed, rate) == elapsed < rate

\* The mutation of Probed that zeroes the metric when the probe has no data.
ProbedOrZero(old, sampled) == IF sampled = None THEN 0 ELSE sampled[1]

\* if let Some(v) = probe() { field = v; }
Probed(old, sampled) == IF sampled = None THEN old ELSE sampled[1]

\* The mutation of SampleOp in which a rejected call re-arms the gate.
SampleOpRearming(cpu, mem) ==
    /\ IF GateClosed(now - last_sample, sampling_rate)
       THEN /\ op' = <<"sample">>
            /\ ret' = None
            /\ last_sample' = now
            /\ UNCHANGED <<metrics, history, accepted>>
       ELSE LET snapshot ==
                    [metrics EXCEPT
                        !.timestamp = now_millis,
                        !.frame_rate = current_fps,
                        !.frame_time_ms = average_frame_time,
                        !.cpu_usage = Probed(@, cpu),
                        !.memory_usage = Probed(@, mem)]
            IN  /\ op' = <<"sample", cpu, mem>>
                /\ metrics' = snapshot
                /\ history' = PushBounded(history, snapshot, max_history)
                /\ last_sample' = now
                /\ ret' = Some(snapshot)
                /\ accepted' = Append(accepted, snapshot)
    /\ UNCHANGED <<trackerVars, sampling_rate, max_history, lockVars>>

\* sample(), the probes answering cpu and mem.
SampleOp(cpu, mem) ==
    /\ IF GateClosed(now - last_sample, sampling_rate)
       THEN /\ op' = <<"sample">>
            /\ ret' = None
            /\ UNCHANGED <<metrics, history, last_sample, accepted>>
       ELSE LET snapshot ==
                    [metrics EXCEPT
                        !.timestamp = now_millis,
                        !.frame_rate = current_fps,
                        !.frame_time_ms = average_frame_time,
                        !.cpu_usage = Probed(@, cpu),
                        !.memory_usage = Probed(@, mem)]
            IN  /\ op' = <<"sample", cpu, mem>>
                /\ metrics' = snapshot
                /\ history' = PushBounded(history, snapshot, max_history)
                /\ last_sample' = now
                /\ ret' = Some(snapshot)
                /\ accepted' = Append(accepted, snapshot)
    /\ UNCHANGED <<trackerVars, sampling_rate, max_history, lockVars>>

Sample(cpu, mem) ==
    /\ Len(accepted) < MaxAccepted
    /\ SampleOp(cpu, mem)
    /\ UNCHANGED <<now, driver, latencyVars, poolVars, gpuVars>>

\* ------------------------------------------- statistics of the frame times
\* The percentile arguments tried, in percent.
Percentiles == {0, 50, 95, 100}

\* sorted.sort_by(|a, b| a.partial_cmp(b).unwrap())
Sorted(s) == SortSeq(s, LAMBDA a, b : a < b)

\* The mutation of PercentileIndex that truncates where the code rounds.
PercentileIndexTruncated(p, len) == (p * (len - 1)) \div 100

\* ((percentile / 100.0) * (len - 1) as f64).round() as usize
PercentileIndex(p, len) == (2 * p * (len - 1) + 100) \div 200

percentile_frame_time(p) ==
    IF frame_times = <<>> THEN Zero
    ELSE Rat(Sorted(frame_times)[PercentileIndex(p, Len(frame_times)) + 1],
             resolution)

\* The sum of (len * s[i] - total)^2, which is len^2 times the sum of the
\* squared differences from the mean total / len.
SquaredDiffs(s, total, len) ==
    Sum([i \in DOMAIN s |-> (len * s[i] - total) * (len * s[i] - total)])

\* The mutation of variance that divides by n, not n - 1.
variance_population(values) ==
    IF Len(values) < 2 THEN Zero
    ELSE Rat(SquaredDiffs(values, Sum(values), Len(values)),
             Len(values) * Len(values) * Len(values))

\* Self::variance(values), and frame_time_variance() on the frame times.
variance(values) ==
    IF Len(values) < 2 THEN Zero
    ELSE Rat(SquaredDiffs(values, Sum(values), Len(values)),
             Len(values) * Len(values) * (Len(values) - 1))

\* The variance of the frame times, in ms squared.
frame_time_variance ==
    LET v == variance(frame_times)
    IN  Rat(v.n, v.d * resolution * resolution)

\* The mutation of detect_frame_drops that also reports a frame time equal
\* to the threshold.
detect_frame_drops_from(threshold) ==
    LET indices == [i \in DOMAIN frame_times |-> i - 1]
        above(i) == 100 * frame_times[i + 1] >= threshold * resolution
    IN  SelectSeq(indices, above)

\* The 0-based indices of the frame times above threshold, given in
\* hundredths of a millisecond, in ascending order.
detect_frame_drops(threshold) ==
    LET indices == [i \in DOMAIN frame_times |-> i - 1]
        above(i) == 100 * frame_times[i + 1] > threshold * resolution
    IN  SelectSeq(indices, above)

\* ------------------------------------------------------ performance score
\* 33.33 and 16.67 ms, and the divisor 16.66, in hundredths.
DropThreshold == 3333
SmoothThreshold == 1667
StabilitySpan == 1666

Clamp(x, lo, hi) == IF x < lo THEN lo ELSE IF x > hi THEN hi ELSE x

\* (n / d) as u8, d > 0: the cast truncates and saturates at 0 and 255.
AsU8(n, d) == Clamp(n \div d, 0, 255)

fps_score ==
    LET n == current_fps.n
        d == current_fps.d
    IN  IF n >= 60 * d THEN 40
        ELSE IF n >= 30 * d THEN 30 + ((n - 30 * d) * 10) \div (30 * d)
        ELSE n \div d

stability_score ==
    LET n == average_frame_time.n
        d == average_frame_time.d
    IN  IF 100 * n < SmoothThreshold * d THEN 30
        ELSE IF 100 * n < DropThreshold * d
             THEN 20 + ((DropThreshold * d - 100 * n) * 10) \div (StabilitySpan * d)
             ELSE (DropThreshold * d * 20) \div (100 * n)

drop_penalty == Min(Len(detect_frame_drops(DropThreshold)), 10) * 3

\* calculate_score(): the results the builds produce, None for a panic.  The
\* sum is u8 arithmetic: a difference below 0 panics where overflow checks
\* are on (debug) and wraps modulo 256 where they are off (release).
calculate_score ==
    LET raw == fps_score + stability_score - drop_penalty
    IN  IF raw >= 0
        THEN {Some(Clamp(raw, 0, 100))}
        ELSE {None, Some(Clamp(raw + 256, 0, 100))}

\* ------------------------------------------------------ session profile
\* Self::variance(values) of fractions: the sum of the squared differences
\* from the mean, divided by len - 1.
RatVariance(values) ==
    IF Len(values) < 2 THEN Zero
    ELSE LET len == Len(values)
             mean == LET total == RatSum(values)
                     IN  Rat(total.n, total.d * len)
             diff(v) == RatAdd(v, [n |-> -mean.n, d |-> mean.d])
             squared == [i \in DOMAIN values |->
                            Rat(diff(values[i]).n * diff(values[i]).n,
                                diff(values[i]).d * diff(values[i]).d)]
             squared_diffs == RatSum(squared)
         IN  Rat(squared_diffs.n, squared_diffs.d * (len - 1))

\* The mutation of HistoryValues that keeps the zeros.
HistoryValuesUnfiltered(field) ==
    [i \in DOMAIN history |-> history[i][field]]

\* self.history.iter().map(|m| m.field).filter(|&x| x > 0.0).collect()
HistoryValues(field) ==
    SelectSeq([i \in DOMAIN history |-> history[i][field]],
              LAMBDA x : x.n > 0)

\* The mutation of total_playtime_ms that counts every snapshot accepted.
total_playtime_of_accepted == Len(accepted) * sampling_rate

\* self.history.len() as u64 * self.sampling_rate.as_millis() as u64
total_playtime_ms == Len(history) * sampling_rate

\* calculate_profile(game_id); performance_score is the set of the results
\* the builds produce.
calculate_profile(game_id) ==
    LET frame_time_values == HistoryValues("frame_time_ms")
        fps_values == HistoryValues("frame_rate")
    IN  [game_id |-> game_id,
         average_fps |->
             IF fps_values # <<>>
             THEN LET total == RatSum(fps_values)
                  IN  Rat(total.n, total.d * Len(fps_values))
             ELSE Zero,
         fps_variance |-> RatVariance(fps_values),
         min_frame_time |->
             IF frame_time_values # <<>> THEN RatMin(frame_time_values) ELSE Zero,
         max_frame_time |->
             IF frame_time_values # <<>> THEN RatMax(frame_time_values) ELSE Zero,
         percentile_95_frame_time |-> percentile_frame_time(95),
         total_playtime_ms |-> total_playtime_ms,
         frame_drops |-> Len(detect_frame_drops(DropThreshold)),
         performance_score |-> calculate_score]

\* --------------------------------------------------------- LatencyTracker
\* The latency_ms arguments of record_ping.
Latencies == {40, 50, 100, 1000}

\* LatencyTracker::new(k)
LatencyNew(k) ==
    /\ ping_history = <<>>
    /\ jitter_history = <<>>
    /\ packet_loss = 0
    /\ packets_sent = 0
    /\ packets_received = 0
    /\ latency_max_history = k
    /\ pinged = <<>>

\* The mutation of Jitter that leaves the sign in.
JitterSigned(latest, previous) == latest - previous

\* (latest - previous).abs()
Jitter(latest, previous) == Abs(latest - previous)

\* record_ping(latency_ms): what it does to the tracker's fields.
RecordPingOp(latency_ms) ==
    LET pings == PushBounded(ping_history, latency_ms, latency_max_history)
    IN  /\ op' = <<"record_ping", latency_ms>>
        /\ pinged' = Append(pinged, latency_ms)
        /\ packets_received' = packets_received + 1
        /\ ping_history' = pings
        /\ jitter_history' =
               IF Len(pings) >= 2
               THEN PushBounded(jitter_history,
                                Jitter(pings[Len(pings)], pings[Len(pings) - 1]),
                                latency_max_history)
               ELSE jitter_history
        /\ UNCHANGED <<packet_loss, packets_sent, latency_max_history>>
        /\ UNCHANGED <<now, trackerVars, monitorVars, driver, poolVars, gpuVars>>

RecordPing(latency_ms) ==
    /\ packets_received < MaxPings
    /\ RecordPingOp(latency_ms)

\* record_packet_loss(), at most limit times.
RecordPacketLoss(limit) ==
    /\ op' = <<"record_packet_loss">>
    /\ packet_loss < limit
    /\ packet_loss' = packet_loss + 1
    /\ UNCHANGED <<ping_history, jitter_history, packets_sent,
                   packets_received, latency_max_history, pinged>>
    /\ UNCHANGED <<now, trackerVars, monitorVars, driver, poolVars, gpuVars>>

\* increment_sent(), at most limit times.
IncrementSent(limit) ==
    /\ op' = <<"increment_sent">>
    /\ packets_sent < limit
    /\ packets_sent' = packets_sent + 1
    /\ UNCHANGED <<ping_history, jitter_history, packet_loss,
                   packets_received, latency_max_history, pinged>>
    /\ UNCHANGED <<now, trackerVars, monitorVars, driver, poolVars, gpuVars>>

average_latency ==
    IF ping_history = <<>> THEN Zero
    ELSE Rat(Sum(ping_history), Len(ping_history))

average_jitter ==
    IF jitter_history = <<>> THEN Zero
    ELSE Rat(Sum(jitter_history), Len(jitter_history))

\* The mutation of packet_loss_rate that leaves out the factor 100.
packet_loss_rate_fraction ==
    IF packets_sent = 0 THEN Zero
    ELSE Rat(packet_loss, packets_sent)

packet_loss_rate ==
    IF packets_sent = 0 THEN Zero
    ELSE Rat(packet_loss * 100, packets_sent)

percentile_latency(p) ==
    IF ping_history = <<>> THEN Zero
    ELSE Rat(Sorted(ping_history)[PercentileIndex(p, Len(ping_history)) + 1], 1)

\* The three parts of quality_score(), each of the metric it scores.  The
\* last branch of the latency part is the f64 the source writes (its cast
\* binds to the literal 30.0 alone); the cast of the clamped sum floors it.
latency_score(a) ==
    IF a.n < 50 * a.d THEN 40
    ELSE IF a.n < 100 * a.d
         THEN 30 + ((100 * a.d - a.n) * 10) \div (50 * a.d)
         ELSE AsU8((200 * a.d - a.n) * 30, 150 * a.d)

jitter_score(j) ==
    IF j.n < 10 * j.d THEN 30
    ELSE IF j.n < 30 * j.d
         THEN 20 + ((30 * j.d - j.n) * 10) \div (20 * j.d)
         ELSE (30 * j.d * 20) \div j.n

loss_score(r) ==
    IF r.n < r.d THEN 30
    ELSE IF r.n < 5 * r.d
         THEN 20 + ((5 * r.d - r.n) * 10) \div (4 * r.d)
         ELSE (5 * r.d * 20) \div r.n

quality_score ==
    Clamp(latency_score(average_latency) + jitter_score(average_jitter)
          + loss_score(packet_loss_rate), 0, 100)

\* ------------------------------------------------------ ThreadPoolMonitor
\* 16.67 ms, in hundredths.
QueueFrameTime == 1667

\* The four atomic counters, and the threads that update them.
Counters == {"queue_length", "active_tasks", "completed_tasks", "total_tasks"}
Workers == 1..NumWorkers

Idle == [pc |-> "idle", counter |-> "", delta |-> 0, seen |-> 0]

\* ThreadPoolMonitor::new(num_threads)
PoolNew ==
    /\ queue_length = 0
    /\ active_tasks = 0
    /\ completed_tasks = 0
    /\ total_tasks = 0
    /\ workers = [w \in Workers |-> Idle]
    /\ applied = [c \in Counters |-> [inc |-> 0, dec |-> 0]]

\* counter.load(Ordering::SeqCst)
Load(c) ==
    CASE c = "queue_length" -> queue_length
      [] c = "active_tasks" -> active_tasks
      [] c = "completed_tasks" -> completed_tasks
      [] c = "total_tasks" -> total_tasks

\* The mutation of FetchAdd that stores the value the thread loaded earlier
\* plus delta: a load followed by a store.
StoreLoadedPlus(seen, current, delta) == seen + delta

\* counter.fetch_add(delta) (fetch_sub for delta = -1): one atomic
\* read-modify-write of the counter's current value.
FetchAdd(seen, current, delta) == current + delta

\* The updates applied so far.
Updates ==
    LET of(c) == applied[c].inc + applied[c].dec
    IN  of("queue_length") + of("active_tasks") + of("completed_tasks")
        + of("total_tasks")

\* Worker w picks the counter it is about to update and looks at its value.
WorkerBegin(w, c, delta) ==
    /\ workers[w].pc = "idle"
    /\ Updates + Cardinality({v \in Workers : workers[v].pc = "update"})
          < MaxUpdates
    /\ workers' = [workers EXCEPT ![w] =
                      [pc |-> "update", counter |-> c, delta |-> delta,
                       seen |-> Load(c)]]
    /\ op' = <<"worker_begin">>
    /\ UNCHANGED <<queue_length, active_tasks, completed_tasks, total_tasks,
                   applied>>
    /\ UNCHANGED <<now, trackerVars, monitorVars, driver, latencyVars,
                   gpuVars>>

\* Worker w applies its update; a decrement undoes an earlier increment, so
\* it is applied to a counter above 0.
WorkerUpdate(w) ==
    LET c == workers[w].counter
        delta == workers[w].delta
        value == FetchAdd(workers[w].seen, Load(c), delta)
    IN  /\ workers[w].pc = "update"
        /\ delta = -1 => Load(c) > 0
        /\ queue_length' = IF c = "queue_length" THEN value ELSE queue_length
        /\ active_tasks' = IF c = "active_tasks" THEN value ELSE active_tasks
        /\ completed_tasks' =
              IF c = "completed_tasks" THEN value ELSE completed_tasks
        /\ total_tasks' = IF c = "total_tasks" THEN value ELSE total_tasks
        /\ applied' = [applied EXCEPT
                          ![c].inc = IF delta = 1 THEN @ + 1 ELSE @,
                          ![c].dec = IF delta = -1 THEN @ + 1 ELSE @]
        /\ workers' = [workers EXCEPT ![w] = Idle]
        /\ op' = <<"worker_update", c, delta, workers[w].seen>>
        /\ UNCHANGED <<now, trackerVars, monitorVars, driver, latencyVars,
                   gpuVars>>

average_queue_time ==
    IF active_tasks > 0
    THEN Rat(queue_length * QueueFrameTime, active_tasks * 100)
    ELSE Zero

\* x / 0.0 for an x above 0
Infinity == [n |-> 1, d |-> 0]

\* The window_secs that throughput() is asked for.
WindowSecs == {0, 1, 60}

\* completed as f64 / window_secs
throughput(window_secs) ==
    IF window_secs # 0 THEN Rat(completed_tasks, window_secs)
    ELSE IF completed_tasks = 0 THEN NaN
    ELSE Infinity

\* The public operations of ThreadPoolMonitor: each loads counters and
\* returns.
PoolQuery(name, result) ==
    /\ op' = <<name, result>>
    /\ UNCHANGED <<now, trackerVars, monitorVars, driver, latencyVars, poolVars,
                   gpuVars>>

QueueLength == PoolQuery("queue_length", Load("queue_length"))
ActiveTasks == PoolQuery("active_tasks", Load("active_tasks"))
CompletedTasks == PoolQuery("completed_tasks", Load("completed_tasks"))
Throughput(window_secs) ==
    PoolQuery("throughput", <<window_secs, throughput(window_secs)>>)
AverageQueueTime == PoolQuery("average_queue_time", average_queue_time)

\* -------------------------------------------------- GPUPerformanceTracker
\* A u32 goes beyond what the checker's integers hold, so the two counters
\* that are added to are written in two digits of base 2^16: hi * 2^16 + lo.
Half == 65536
Wide(hi, lo) == [hi |-> hi, lo |-> lo]
WideAdd(a, b) ==
    LET lo == a.lo + b.lo
    IN  [hi |-> a.hi + b.hi + lo \div Half, lo |-> lo % Half]
FitsU32(a) == a.hi < Half
WrapU32(a) == [a EXCEPT !.hi = @ % Half]

RECURSIVE WideSum(_)
WideSum(s) == IF s = <<>> THEN Wide(0, 0) ELSE WideAdd(s[1], WideSum(Tail(s)))

\* The arguments of record_draw_call(): 3 and 2^31 vertices, 1 and 2^31
\* triangles.
VertexCounts == {Wide(0, 3), Wide(32768, 0)}
TriangleCounts == {Wide(0, 1), Wide(32768, 0)}
\* What the backend device's end_frame() returns, in ms.
RenderTimes == {None, Some(8)}
\* The capacity of the GPU frame-time buffer.
GpuCapacity == 300

\* GPUPerformanceTracker::new(): the backend of the platform, where it could
\* be created.
GpuNew ==
    /\ \/ vulkan_device \in {None, Some("vulkan")} /\ directx_device = None
       \/ vulkan_device = None /\ directx_device \in {None, Some("directx")}
    /\ gpu_frame_times = <<>>
    /\ vertex_count = Wide(0, 0)
    /\ triangle_count = Wide(0, 0)
    /\ draw_calls = 0
    /\ draws = <<>>

\* A call that panicked has ended the thread that owns the tracker.
Panicked == op[1] = "panic"

\* begin_frame()
GpuBeginFrame ==
    /\ ~Panicked
    /\ vertex_count' = Wide(0, 0)
    /\ triangle_count' = Wide(0, 0)
    /\ draw_calls' = 0
    /\ draws' = <<>>
    /\ op' = <<"begin_frame">>
    /\ UNCHANGED <<vulkan_device, directx_device, gpu_frame_times>>
    /\ UNCHANGED <<now, trackerVars, monitorVars, driver, latencyVars, poolVars>>

\* record_draw_call(vertex_count, triangle_count). Where an addition goes
\* beyond u32 the build decides: with overflow checks the call panics at that
\* addition, without them the counter wraps.
RecordDrawCall(vertices, triangles) ==
    LET vs == WideAdd(vertex_count, vertices)
        ts == WideAdd(triangle_count, triangles)
    IN  /\ ~Panicked
        /\ Len(draws) < MaxDrawCalls
        /\ draws' = Append(draws, <<vertices, triangles>>)
        /\ \/ /\ vertex_count' = WrapU32(vs)
              /\ triangle_count' = WrapU32(ts)
              /\ draw_calls' = draw_calls + 1
              /\ op' = <<"record_draw_call", vertices, triangles>>
           \/ /\ ~FitsU32(vs)
              /\ op' = <<"panic", "record_draw_call", vertices, triangles>>
              /\ UNCHANGED <<vertex_count, triangle_count, draw_calls>>
           \/ /\ FitsU32(vs) /\ ~FitsU32(ts)
              /\ vertex_count' = vs
              /\ op' = <<"panic", "record_draw_call", vertices, triangles>>
              /\ UNCHANGED <<triangle_count, draw_calls>>
        /\ UNCHANGED <<vulkan_device, directx_device, gpu_frame_times>>
        /\ UNCHANGED <<now, trackerVars, monitorVars, driver, latencyVars,
                       poolVars>>

\* end_frame(); time is what the device's end_frame() returns where there is
\* a device.
GpuEndFrame(time) ==
    LET render_time ==
            IF vulkan_device # None THEN time
            ELSE IF directx_device # None THEN time
            ELSE None
    IN  /\ ~Panicked
        /\ gpu_frame_times' =
              IF render_time # None
              THEN PushBounded(gpu_frame_times, render_time[1], GpuCapacity)
              ELSE gpu_frame_times
        /\ op' = <<"gpu_end_frame", render_time>>
        /\ UNCHANGED <<vulkan_device, directx_device, vertex_count,
                       triangle_count, draw_calls, draws>>
        /\ UNCHANGED <<now, trackerVars, monitorVars, driver, latencyVars,
                       poolVars>>

\* ------------------------------------------------- components not in use
NoTracker == TrackerNew(0)

NoLatency == LatencyNew(0)

NoGpu ==
    /\ vulkan_device = None
    /\ directx_device = None
    /\ gpu_frame_times = <<>>
    /\ vertex_count = Wide(0, 0)
    /\ triangle_count = Wide(0, 0)
    /\ draw_calls = 0
    /\ draws = <<>>

\* ----------------------------------------------------- the tracker alone
TrackerInit ==
    /\ now = 0
    /\ driver = NoDriver
    /\ op = <<"new">>
    /\ \E n \in 0..MaxSamples : TrackerNew(n)
    /\ NoMonitor
    /\ NoLatency
    /\ PoolNew
    /\ NoGpu

TrackerNext == Tick \/ TrackerRecordFrame \/ TrackerReset

TrackerSpec == TrackerInit /\ [][TrackerNext]_vars

\* C1: the frame-time buffer never holds more than max_samples entries and
\* is always the max_samples most recent frame times, in arrival order.
C1_FrameBufferFifo ==
    /\ Len(frame_times) <= max_samples
    /\ frame_times = LastN(recorded, max_samples)

\* More frames than the capacity have been recorded, at different frame times.
C1_Witness ==
    /\ max_samples = 2
    /\ Len(recorded) > max_samples
    /\ recorded[1] # recorded[2]
    /\ recorded[2] # recorded[3]

Init ==
    /\ now = 0
    /\ op = <<"new">>
    /\ driver = NoDriver
    /\ \E rate \in SamplingRates, cap \in 0..MaxHistory : MonitorNew(rate, cap)
    /\ NoLatency
    /\ PoolNew
    /\ NoGpu

Next ==
    \/ MonitorTick
    \/ StartFrame
    \/ EndFrame
    \/ \E cpu \in CpuProbe, mem \in MemProbe : Sample(cpu, mem)

Spec == Init /\ [][Next]_vars

\* C2: the history never holds more than max_history snapshots and is always
\* the max_history most recently accepted snapshots, in acceptance order.
C2_HistoryFifo ==
    /\ Len(history) <= max_history
    /\ history = LastN(accepted, max_history)

\* More snapshots than max_history were accepted, and the evicted one differs
\* from the ones kept.
C2_Witness ==
    /\ max_history = 2
    /\ Len(accepted) = 3
    /\ accepted[1] # accepted[2]
    /\ accepted[2] # accepted[3]

\* C3: once a sample has succeeded, a sample() call made less than
\* sampling_rate after it returns no snapshot and leaves the history alone; a
\* call made sampling_rate or more after it returns a snapshot, and that
\* snapshot is the one entry appended to the history.
C3_SampleGate ==
    [][(op'[1] = "sample" /\ accepted # <<>>) =>
        LET previous == accepted[Len(accepted)].timestamp - EpochMs
        IN  IF now - previous < sampling_rate
            THEN /\ ret' = None
                 /\ history' = history
                 /\ accepted' = accepted
            ELSE /\ ret' # None
                 /\ accepted' = Append(accepted, ret'[1])
                 /\ history' = LastN(Append(history, ret'[1]), max_history)]_vars

\* A second sample was accepted exactly sampling_rate after the first.
C3_Witness ==
    /\ op[1] = "sample"
    /\ Len(accepted) = 2
    /\ ret = Some(accepted[2])
    /\ accepted[2].timestamp - accepted[1].timestamp = sampling_rate
    /\ max_history > 0

\* C5: an accepted sample() whose CPU (memory) probe has no data returns a
\* snapshot whose cpu_usage (memory_usage) is the value held before the call,
\* and appends that snapshot to the history.
C5_ProbeRetains ==
    [][(op'[1] = "sample" /\ Len(op') = 3) =>
        /\ ret' # None
        /\ history' = LastN(Append(history, ret'[1]), max_history)
        /\ op'[2] = None => ret'[1].cpu_usage = metrics.cpu_usage
        /\ op'[3] = None => ret'[1].memory_usage = metrics.memory_usage]_vars

\* Both probes had no data, and the snapshot keeps the values sampled before.
C5_Witness ==
    /\ op = <<"sample", None, None>>
    /\ ret # None
    /\ ret[1].cpu_usage = 45
    /\ ret[1].memory_usage = 60
    /\ history # <<>>
    /\ history[Len(history)] = ret[1]

\* ------------------------------------- a caller sampling at a fixed spacing
\* The spacings of the calls, and the max_history arguments, of the scenario.
Spacings == {50, 100}
DriverHistories == {3, 5}

\* The caller constructs PerformanceMonitor::new(100, cap) and makes its first
\* call either at once or one spacing later.
DriverInit ==
    /\ now = 0
    /\ op = <<"new">>
    /\ \E cap \in DriverHistories : MonitorNew(100, cap)
    /\ NoLatency
    /\ PoolNew
    /\ NoGpu
    /\ \E s \in Spacings :
          \E f \in {0, s} :
            driver = [spacing |-> s, first |-> f, calls |-> 0, waited |-> FALSE]

DriverWait ==
    /\ ~driver.waited
    /\ driver.calls < MaxCalls
    /\ now' = now + (IF driver.calls = 0 THEN driver.first ELSE driver.spacing)
    /\ driver' = [driver EXCEPT !.waited = TRUE]
    /\ UNCHANGED <<op, trackerVars, monitorVars, latencyVars, poolVars, gpuVars>>

DriverSample ==
    /\ driver.waited
    /\ \E cpu \in CpuProbe, mem \in MemProbe : SampleOp(cpu, mem)
    /\ driver' = [driver EXCEPT !.calls = @ + 1, !.waited = FALSE]
    /\ UNCHANGED <<now, latencyVars, poolVars, gpuVars>>

DriverNext == DriverWait \/ DriverSample

DriverSpec == DriverInit /\ [][DriverNext]_vars

\* The scenario of C4 has run: new(100, 5), then 10 sample() calls 50 ms apart.
ScenarioDone ==
    /\ sampling_rate = 100
    /\ max_history = 5
    /\ driver.spacing = 50
    /\ driver.calls = 10

\* C4 as stated: the scenario ends with exactly 5 accepted samples and a
\* history of length 5.
C4_AsStated ==
    ScenarioDone => Len(accepted) = 5 /\ Len(history) = 5

\* C4 as amended: when the first call is made 50 ms after construction the
\* scenario ends with exactly 5 accepted samples and a history of length 5;
\* when the first call is made at construction it ends with 4 and 4.
C4_Amended ==
    ScenarioDone =>
        IF driver.first = 50
        THEN Len(accepted) = 5 /\ Len(history) = 5
        ELSE Len(accepted) = 4 /\ Len(history) = 4

\* The scenario has run with the first call 50 ms after construction.
C4_Witness ==
    /\ ScenarioDone
    /\ driver.first = 50
    /\ Len(accepted) = 5

\* ------------------------------------------------ the latency tracker alone
LatencyInit ==
    /\ now = 0
    /\ op = <<"new">>
    /\ driver = NoDriver
    /\ NoTracker
    /\ NoMonitor
    /\ \E k \in 0..MaxLatencyHistory : LatencyNew(k)
    /\ PoolNew
    /\ NoGpu

LatencyNext ==
    \/ \E latency_ms \in Latencies : RecordPing(latency_ms)
    \/ RecordPacketLoss(MaxPackets)
    \/ IncrementSent(MaxPackets)

LatencySpec == LatencyInit /\ [][LatencyNext]_vars

\* ----------------------------------------------- the packet counters alone
LossNext == RecordPacketLoss(MaxSent) \/ IncrementSent(MaxSent)

LossSpec == LatencyInit /\ [][LossNext]_vars

\* ------------------------------------------- the trackers, one at a time
\* The trackers share no state: each is used while the other is as constructed.
TrackerUntouched ==
    /\ now = 0
    /\ recorded = <<>>
    /\ frame_times = <<>>
    /\ frame_count = 0

LatencyUntouched ==
    /\ ping_history = <<>>
    /\ jitter_history = <<>>
    /\ packet_loss = 0
    /\ packets_sent = 0
    /\ packets_received = 0

TrackersInit ==
    /\ now = 0
    /\ op = <<"new">>
    /\ driver = NoDriver
    /\ TrackerNew(MaxSamples)
    /\ NoMonitor
    /\ LatencyNew(MaxLatencyHistory)
    /\ PoolNew
    /\ NoGpu

TrackersNext ==
    \/ LatencyUntouched /\ TrackerNext
    \/ TrackerUntouched /\ LatencyNext

TrackersSpec == TrackersInit /\ [][TrackersNext]_vars

\* C6 as stated: quality_score() and performance_score lie in 0..100 in every
\* reachable state.
C6_AsStated ==
    /\ quality_score \in 0..100
    /\ \A score \in calculate_score : score # None /\ score[1] \in 0..100

\* C7 as stated: performance_score is fps_sub_score + stability_sub_score -
\* drop_penalty clamped to 0..100, with fps_sub_score in 0..40 (40 from
\* 60 fps on), stability_sub_score in 0..30 and drop_penalty 3 times the
\* dropped frames, at most 10 of them; it is 0 when the penalty exceeds the
\* sum of the sub-scores.
C7_AsStated ==
    LET dropped == {i \in DOMAIN frame_times : 100 * frame_times[i] > 3333}
    IN  /\ fps_score \in 0..40
        /\ current_fps.n >= 60 * current_fps.d => fps_score = 40
        /\ stability_score \in 0..30
        /\ drop_penalty = 3 * Min(Cardinality(dropped), 10)
        /\ calculate_score =
              {Some(Clamp(fps_score + stability_score - drop_penalty, 0, 100))}
        /\ drop_penalty > fps_score + stability_score
              => calculate_score = {Some(0)}

\* C8 as stated: each part of quality_score() does not increase as its metric
\* worsens, and at each breakpoint (latency 50 and 100 ms, jitter 10 and
\* 30 ms, loss 1 and 5 %) the value just below and the value at the
\* breakpoint differ by at most the 1 that truncation accounts for.
C8_AsStated ==
    LET a == average_latency
        j == average_jitter
        r == packet_loss_rate
        Plus(x, y) == Rat(x.n * y.d + y.n * x.d, x.d * y.d)
        JustBelow(x) == Rat(100 * x.n - x.d, 100 * x.d)
        Worse == {Rat(1, 100), Rat(1, 1), Rat(100, 1)}
        At(x, points) == \E b \in points : x = Rat(b, 1)
    IN  /\ \A w \in Worse :
              /\ latency_score(Plus(a, w)) <= latency_score(a)
              /\ jitter_score(Plus(j, w)) <= jitter_score(j)
              /\ loss_score(Plus(r, w)) <= loss_score(r)
        /\ At(a, {50, 100}) => latency_score(JustBelow(a)) - latency_score(a) <= 1
        /\ At(j, {10, 30}) => jitter_score(JustBelow(j)) - jitter_score(j) <= 1
        /\ At(r, {1, 5}) => loss_score(JustBelow(r)) - loss_score(r) <= 1

\* C9: while a buffer is empty, or a denominator 0, as on a freshly
\* constructed tracker, every statistic over it is 0.
C9_FreshStatsZero ==
    /\ frame_times = <<>> =>
          /\ average_frame_time = Zero
          /\ frame_time_variance = Zero
          /\ \A p \in Percentiles : percentile_frame_time(p) = Zero
    /\ ping_history = <<>> =>
          /\ average_latency = Zero
          /\ \A p \in Percentiles : percentile_latency(p) = Zero
    /\ jitter_history = <<>> => average_jitter = Zero
    /\ packets_sent = 0 => packet_loss_rate = Zero
    /\ active_tasks = 0 => average_queue_time = Zero

\* The trackers are as constructed, with buffers that can hold samples.
C9_Witness ==
    /\ op = <<"new">>
    /\ max_samples > 0 /\ frame_times = <<>> /\ frame_count = 0
    /\ latency_max_history > 0 /\ LatencyUntouched
    /\ active_tasks = 0 /\ queue_length = 0
    /\ average_frame_time = Zero /\ average_latency = Zero

\* The rate is 0 while nothing was sent, and otherwise the quotient.
C10_RateIsQuotient ==
    /\ packets_sent = 0 => packet_loss_rate = Zero
    /\ packets_sent > 0 =>
          packet_loss_rate.n * packets_sent
              = packet_loss * 100 * packet_loss_rate.d
    /\ (packet_loss = 2 /\ packets_sent = 20) =>
          packet_loss_rate = [n |-> 10, d |-> 1]

\* Each call adds 1 to its own counter and changes nothing else.
C10_CountsOne ==
    /\ op'[1] = "increment_sent" =>
          /\ packets_sent' = packets_sent + 1
          /\ UNCHANGED <<packet_loss, packets_received, ping_history,
                         jitter_history, latency_max_history>>
    /\ op'[1] = "record_packet_loss" =>
          /\ packet_loss' = packet_loss + 1
          /\ UNCHANGED <<packets_sent, packets_received, ping_history,
                         jitter_history, latency_max_history>>

\* C10: packet_loss_rate() is 0 while packets_sent is 0 and otherwise
\* packet_loss / packets_sent * 100 (10 for 2 losses out of 20 sent);
\* increment_sent() adds 1 to packets_sent and record_packet_loss() adds 1 to
\* packet_loss, and neither changes anything else of the tracker.
C10_LossRate == []C10_RateIsQuotient /\ [][C10_CountsOne]_vars

\* 2 losses out of 20 packets sent.
C10_Witness ==
    /\ packet_loss = 2
    /\ packets_sent = 20
    /\ packet_loss_rate = [n |-> 10, d |-> 1]

\* ------------------------------------------------- percentiles of a buffer
\* percentile_frame_time(p) is called; op records the argument and the result.
PercentileFrameTime(p) ==
    /\ op' = <<"percentile_frame_time", p, percentile_frame_time(p)>>
    /\ UNCHANGED <<now, trackerVars, monitorVars, driver, latencyVars, poolVars, gpuVars>>

\* percentile_latency(p) is called; op records the argument and the result.
PercentileLatency(p) ==
    /\ op' = <<"percentile_latency", p, percentile_latency(p)>>
    /\ UNCHANGED <<now, trackerVars, monitorVars, driver, latencyVars, poolVars, gpuVars>>

PercentileInit ==
    /\ now = 0
    /\ op = <<"new">>
    /\ driver = NoDriver
    /\ TrackerNew(MaxPercentileSamples)
    /\ NoMonitor
    /\ LatencyNew(MaxPercentileSamples)
    /\ PoolNew
    /\ NoGpu

PercentileNext ==
    \/ LatencyUntouched /\ MonitorTick
    \/ /\ LatencyUntouched
       /\ op' = <<"record_frame">>
       /\ RecordFrame(MaxPercentileCalls)
       /\ UNCHANGED <<now, monitorVars, driver, latencyVars, poolVars, gpuVars>>
    \/ \E p \in Percentiles : PercentileFrameTime(p)
    \/ /\ TrackerUntouched
       /\ packets_received < MaxPercentileCalls
       /\ \E latency_ms \in Latencies : RecordPingOp(latency_ms)
    \/ \E p \in Percentiles : PercentileLatency(p)

PercentileSpec == PercentileInit /\ [][PercentileNext]_vars

\* v is the element at index round(p/100 * (n - 1)) of the ascending-sorted
\* copy of the non-empty buffer buf of n whole numbers: index k is the whole
\* number nearest to p * (n - 1) / 100, halves rounding up, and the element
\* at index k of the sorted copy is the value of buf with at most k values
\* of buf below it and more than k values of buf not above it.
IsPercentileOf(v, p, buf) ==
    LET n == Len(buf)
        below(x) == Cardinality({i \in DOMAIN buf : buf[i] < x})
        upTo(x) == Cardinality({i \in DOMAIN buf : buf[i] <= x})
    IN  /\ v.d = 1
        /\ \E i \in DOMAIN buf : buf[i] = v.n
        /\ \E k \in 0..(n - 1) :
              /\ 100 * k - 50 <= p * (n - 1)
              /\ p * (n - 1) < 100 * k + 50
              /\ below(v.n) <= k
              /\ k < upTo(v.n)
        /\ p = 100 => \A i \in DOMAIN buf : buf[i] <= v.n
        /\ p = 0 => \A i \in DOMAIN buf : buf[i] >= v.n

\* C11: on a non-empty buffer, percentile_frame_time(p) and
\* percentile_latency(p) return the element at index round(p/100 * (n - 1))
\* of the ascending-sorted copy of the buffer, the maximum for p = 100 and
\* the minimum for p = 0, and leave the buffer as it was.
C11_Percentile ==
    [][/\ (op'[1] = "percentile_frame_time" /\ frame_times # <<>>) =>
            /\ IsPercentileOf(op'[3], op'[2], frame_times)
            /\ frame_times' = frame_times
       /\ (op'[1] = "percentile_latency" /\ ping_history # <<>>) =>
            /\ IsPercentileOf(op'[3], op'[2], ping_history)
            /\ ping_history' = ping_history]_vars

\* The median of four latencies that are not in ascending order was asked for.
C11_Witness ==
    /\ op[1] = "percentile_latency"
    /\ op[2] = 50
    /\ ping_history = <<100, 1000, 40, 50>>
    /\ op[3] = [n |-> 100, d |-> 1]

\* ------------------------------------------- the variance of the frame times
\* Time that passes between two frames.
VarianceDelays == {10, 20, 30}

VarianceInit ==
    /\ now = 0
    /\ op = <<"new">>
    /\ driver = NoDriver
    /\ \E n \in 0..MaxPercentileSamples : TrackerNew(n)
    /\ NoMonitor
    /\ NoLatency
    /\ PoolNew
    /\ NoGpu

VarianceNext ==
    \/ Advance(VarianceDelays, MaxVarianceTime)
    \/ /\ op' = <<"record_frame">>
       /\ RecordFrame(MaxVarianceFrames)
       /\ UNCHANGED <<now, monitorVars, driver, latencyVars, poolVars, gpuVars>>

VarianceSpec == VarianceInit /\ [][VarianceNext]_vars

\* C12: frame_time_variance() is 0 while fewer than 2 samples are buffered
\* and otherwise the sum of the squared deviations from the mean divided by
\* n - 1, which is (n * sum of squares - square of the sum) / (n * (n - 1));
\* it is 100 for the buffer 10, 20, 30.
C12_SampleVariance ==
    LET n == Len(frame_times)
        squares == [i \in DOMAIN frame_times |-> frame_times[i] * frame_times[i]]
        v == frame_time_variance
    IN  /\ n < 2 => v = Zero
        /\ n >= 2 =>
              /\ v.d > 0
              /\ v.n * n * (n - 1)
                    = v.d * (n * Sum(squares) - Sum(frame_times) * Sum(frame_times))
        /\ frame_times = <<10, 20, 30>> => v = [n |-> 100, d |-> 1]

\* The buffer holds the frame times 10, 20 and 30 ms.
C12_Witness ==
    /\ op = <<"record_frame">>
    /\ frame_times = <<10, 20, 30>>
    /\ frame_time_variance = [n |-> 100, d |-> 1]

\* ------------------------------------------ the pool's counters and workers
PoolInit ==
    /\ now = 0
    /\ op = <<"new">>
    /\ driver = NoDriver
    /\ NoTracker
    /\ NoMonitor
    /\ NoLatency
    /\ PoolNew
    /\ NoGpu

PoolNext ==
    \/ \E w \in Workers, c \in Counters, delta \in {1, -1} :
          WorkerBegin(w, c, delta)
    \/ \E w \in Workers : WorkerUpdate(w)

PoolSpec == PoolInit /\ [][PoolNext]_vars

\* C13: under any interleaving of the workers' increments and decrements no
\* update is lost: each counter is its initial value 0 plus the increments
\* minus the decrements applied to it.
C13_NoLostUpdate ==
    \A c \in Counters : Load(c) = 0 + applied[c].inc - applied[c].dec

\* Two workers looked at the same counter when it was 0, and both have
\* incremented it since.
C13_Witness ==
    /\ op = <<"worker_update", "active_tasks", 1, 0>>
    /\ applied["active_tasks"] = [inc |-> 2, dec |-> 0]
    /\ active_tasks = 2
    /\ \A w \in Workers : workers[w].pc = "idle"

\* ------------------------------------------- threads sharing one monitor
\* sample_cpu_usage() and sample_memory_usage() as the source has them.
sample_cpu_usage == Some(45)
sample_memory_usage == Some(60)

\* self.metrics.write() returns once no thread holds the lock.
WriteFree(l) == l.writers = {} /\ l.readers = {}

\* The mutation of ReadFree that lets a reader in while a writer holds the lock.
ReadFreeAlways(l) == TRUE

\* self.metrics.read() returns once no writer holds the lock.
ReadFree(l) == l.writers = {}

\* What a step of the render or the sampling thread leaves alone.
WriterFrame ==
    UNCHANGED <<now, sampling_rate, max_history, driver, latencyVars, poolVars, gpuVars>>

\* start_frame(), by the render thread.
LockStartFrame ==
    /\ threads.render.pc = "idle"
    /\ op' = <<"start_frame">>
    /\ RecordFrame(MaxMonitorFrames)
    /\ UNCHANGED <<now, monitorVars, driver, latencyVars, poolVars, gpuVars>>

\* end_frame(): let frame_time = self.frame_tracker.average_frame_time();
EndFrameBegin ==
    /\ threads.render.pc = "idle"
    /\ threads' = [threads EXCEPT !.render =
                      [pc |-> "end_frame_lock", frame_time |-> average_frame_time]]
    /\ op' = <<"end_frame_begin">>
    /\ UNCHANGED <<metrics, lock, committed, last_sample, history, accepted,
                   ret, trackerVars>>
    /\ WriterFrame

\* end_frame(): let mut metrics = self.metrics.write();
EndFrameLock ==
    /\ threads.render.pc = "end_frame_lock"
    /\ WriteFree(lock)
    /\ lock' = [lock EXCEPT !.writers = @ \cup {"render"}]
    /\ threads' = [threads EXCEPT !.render.pc = "end_frame_time"]
    /\ op' = <<"end_frame_lock">>
    /\ UNCHANGED <<metrics, committed, last_sample, history, accepted, ret,
                   trackerVars>>
    /\ WriterFrame

\* end_frame(): metrics.frame_time_ms = frame_time;
EndFrameTime ==
    /\ threads.render.pc = "end_frame_time"
    /\ metrics' = [metrics EXCEPT !.frame_time_ms = threads.render.frame_time]
    /\ threads' = [threads EXCEPT !.render.pc = "end_frame_rate"]
    /\ op' = <<"end_frame_time">>
    /\ UNCHANGED <<lock, committed, last_sample, history, accepted, ret,
                   trackerVars>>
    /\ WriterFrame

\* end_frame(): metrics.frame_rate = self.frame_tracker.current_fps(); and
\* the guard is dropped as the call returns.
EndFrameRate ==
    /\ threads.render.pc = "end_frame_rate"
    /\ metrics' = [metrics EXCEPT !.frame_rate = current_fps]
    /\ lock' = [lock EXCEPT !.writers = @ \ {"render"}]
    /\ committed' = metrics'
    /\ threads' = [threads EXCEPT !.render = AtRest]
    /\ op' = <<"end_frame">>
    /\ UNCHANGED <<last_sample, history, accepted, ret, trackerVars>>
    /\ WriterFrame

\* sample(): the gate.
SampleGate ==
    /\ threads.sampler.pc = "idle"
    /\ Len(accepted) < MaxAccepted
    /\ IF GateClosed(now - last_sample, sampling_rate)
       THEN /\ op' = <<"sample">>
            /\ ret' = None
            /\ UNCHANGED threads
       ELSE /\ op' = <<"sample_begin">>
            /\ threads' = [threads EXCEPT !.sampler.pc = "sample_lock"]
            /\ UNCHANGED ret
    /\ UNCHANGED <<metrics, lock, committed, last_sample, history, accepted,
                   trackerVars>>
    /\ WriterFrame

\* sample(): let mut metrics = self.metrics.write();
SampleLock ==
    /\ threads.sampler.pc = "sample_lock"
    /\ WriteFree(lock)
    /\ lock' = [lock EXCEPT !.writers = @ \cup {"sampler"}]
    /\ threads' = [threads EXCEPT !.sampler.pc = "sample_timestamp"]
    /\ op' = <<"sample_lock">>
    /\ UNCHANGED <<metrics, committed, last_sample, history, accepted, ret,
                   trackerVars>>
    /\ WriterFrame

\* sample(): one assignment to a field of the locked metrics.
SampleWrite(at, then, updated) ==
    /\ threads.sampler.pc = at
    /\ metrics' = updated
    /\ threads' = [threads EXCEPT !.sampler.pc = then]
    /\ op' = <<at>>
    /\ UNCHANGED <<lock, committed, last_sample, history, accepted, ret,
                   trackerVars>>
    /\ WriterFrame

SampleAssign ==
    \/ SampleWrite("sample_timestamp", "sample_rate",
                   [metrics EXCEPT !.timestamp = now_millis])
    \/ SampleWrite("sample_rate", "sample_time",
                   [metrics EXCEPT !.frame_rate = current_fps])
    \/ SampleWrite("sample_time", "sample_cpu",
                   [metrics EXCEPT !.frame_time_ms = average_frame_time])
    \/ SampleWrite("sample_cpu", "sample_mem",
                   [metrics EXCEPT !.cpu_usage = Probed(@, sample_cpu_usage)])
    \/ SampleWrite("sample_mem", "sample_push",
                   [metrics EXCEPT !.memory_usage = Probed(@, sample_memory_usage)])

\* sample(): the snapshot is cloned and pushed, last_sample is set, and the
\* guard is dropped as the call returns.
SampleReturn ==
    /\ threads.sampler.pc = "sample_push"
    /\ history' = PushBounded(history, metrics, max_history)
    /\ last_sample' = now
    /\ ret' = Some(metrics)
    /\ accepted' = Append(accepted, metrics)
    /\ lock' = [lock EXCEPT !.writers = @ \ {"sampler"}]
    /\ committed' = metrics
    /\ threads' = [threads EXCEPT !.sampler = AtRest]
    /\ op' = <<"sample", sample_cpu_usage, sample_memory_usage>>
    /\ UNCHANGED <<metrics, trackerVars>>
    /\ WriterFrame

\* get_metrics(): self.metrics.read()
GetMetricsLock(r) ==
    /\ threads.reader[r].pc = "idle"
    /\ ReadFree(lock)
    /\ lock' = [lock EXCEPT !.readers = @ \cup {r}]
    /\ threads' = [threads EXCEPT !.reader[r].pc = "get_metrics_clone"]
    /\ op' = <<"get_metrics_lock", r>>
    /\ UNCHANGED <<metrics, committed, last_sample, history, accepted, ret,
                   trackerVars>>
    /\ WriterFrame

\* get_metrics(): .clone(), and the guard is dropped as the call returns; op
\* records the value returned.
GetMetricsReturn(r) ==
    /\ threads.reader[r].pc = "get_metrics_clone"
    /\ lock' = [lock EXCEPT !.readers = @ \ {r}]
    /\ threads' = [threads EXCEPT !.reader[r] = AtRest]
    /\ op' = <<"get_metrics", r, metrics>>
    /\ UNCHANGED <<metrics, committed, last_sample, history, accepted, ret,
                   trackerVars>>
    /\ WriterFrame

LockInit ==
    /\ now = 0
    /\ op = <<"new">>
    /\ driver = NoDriver
    /\ \E rate \in SamplingRates : MonitorNew(rate, MaxHistory)
    /\ NoLatency
    /\ PoolNew
    /\ NoGpu

LockNext ==
    \/ Advance(MonitorDelays, MaxLockTime)
    \/ LockStartFrame
    \/ EndFrameBegin \/ EndFrameLock \/ EndFrameTime \/ EndFrameRate
    \/ SampleGate \/ SampleLock \/ SampleAssign \/ SampleReturn
    \/ \E r \in Readers : GetMetricsLock(r) \/ GetMetricsReturn(r)

LockSpec == LockInit /\ [][LockNext]_vars

\* At most one writer holds the lock, and no reader holds it with a writer.
C14_Exclusive ==
    /\ Cardinality(lock.writers) <= 1
    /\ lock.writers # {} => lock.readers = {}

\* A step that changes metrics is a step of end_frame() or sample() by the
\* thread that holds the write lock; a get_metrics() that returns holds the
\* read lock, no writer holds the lock, and the value returned is metrics as
\* the last complete end_frame() or sample() left it.
C14_UnderLock ==
    /\ metrics' # metrics =>
          /\ op'[1] \in {"end_frame_time", "end_frame"} => lock.writers = {"render"}
          /\ op'[1] \notin {"end_frame_time", "end_frame"} =>
                /\ lock.writers = {"sampler"}
                /\ threads.sampler.pc \notin {"idle", "sample_lock"}
    /\ op'[1] = "get_metrics" =>
          /\ op'[2] \in lock.readers
          /\ lock.writers = {}
          /\ op'[3] = committed

\* C14: sample() and end_frame() update metrics only while holding the write
\* lock and get_metrics() reads it under the read lock; a writer never holds
\* the lock together with another writer or a reader; a concurrent
\* get_metrics() never returns a value with only part of one sample()'s or
\* end_frame()'s updates.
C14_LockedMetrics == []C14_Exclusive /\ [][C14_UnderLock]_vars

\* A reader has returned what a complete sample() left while the other reader
\* still holds the read lock and the render thread waits for the write lock.
C14_Witness ==
    /\ op[1] = "get_metrics"
    /\ op[3] = committed
    /\ committed.timestamp > 0
    /\ lock.readers # {}
    /\ lock.readers # {op[2]}
    /\ threads.render.pc = "end_frame_lock"

\* ---------------------------------------------------- OptimizationAdvisor
\* The values tried for metrics.memory_usage, profile.average_fps and
\* profile.fps_variance.
AdvisorMemory == {60, 80, 81}
AdvisorFps == {0, 29, 30, 49, 50, 60}
AdvisorVariances == {0, 100, 101}

\* A recommendation, as its category and its priority.
Recommendation(category, priority) == <<category, priority>>

\* The mutation of analyze_and_recommend whose memory rule also triggers at 80.
analyze_and_recommend_from_80(memory_usage, average_fps, fps_variance) ==
    (IF average_fps < 30 THEN <<Recommendation("Graphics", "Critical")>>
     ELSE IF average_fps < 50 THEN <<Recommendation("Graphics", "Medium")>>
     ELSE <<>>)
    \o (IF fps_variance > 100 THEN <<Recommendation("Stability", "High")>>
        ELSE <<>>)
    \o (IF memory_usage >= 80 THEN <<Recommendation("Memory", "High")>>
        ELSE <<>>)

\* OptimizationAdvisor::analyze_and_recommend(metrics, profile), of the
\* fields of its arguments that it reads.
analyze_and_recommend(memory_usage, average_fps, fps_variance) ==
    (IF average_fps < 30 THEN <<Recommendation("Graphics", "Critical")>>
     ELSE IF average_fps < 50 THEN <<Recommendation("Graphics", "Medium")>>
     ELSE <<>>)
    \o (IF fps_variance > 100 THEN <<Recommendation("Stability", "High")>>
        ELSE <<>>)
    \o (IF memory_usage > 80 THEN <<Recommendation("Memory", "High")>>
        ELSE <<>>)

\* The advisor is consulted; op records the arguments and the result.
Analyze(memory_usage, average_fps, fps_variance) ==
    /\ op' = <<"analyze_and_recommend", memory_usage, average_fps, fps_variance,
               analyze_and_recommend(memory_usage, average_fps, fps_variance)>>
    /\ UNCHANGED <<now, trackerVars, monitorVars, driver, latencyVars, poolVars, gpuVars>>

AdvisorNext ==
    \/ Advance(MonitorDelays, MaxAdvisorTime)
    \/ StartFrame
    \/ EndFrame
    \/ \E memory_usage \in AdvisorMemory, average_fps \in AdvisorFps,
          fps_variance \in AdvisorVariances :
            Analyze(memory_usage, average_fps, fps_variance)

AdvisorSpec == Init /\ [][AdvisorNext]_vars

\* C15: the recommendations are, in this order, Critical Graphics iff
\* average_fps < 30, Medium Graphics iff 30 <= average_fps < 50, High
\* Stability iff fps_variance > 100 and High Memory iff memory_usage > 80,
\* each at most once and nothing else; the call changes no state.
C15_AdvisorRules ==
    [][op'[1] = "analyze_and_recommend" =>
        LET memory_usage == op'[2]
            average_fps == op'[3]
            fps_variance == op'[4]
            result == op'[5]
            given == {result[i] : i \in DOMAIN result}
            order == <<<<"Graphics", "Critical">>, <<"Graphics", "Medium">>,
                       <<"Stability", "High">>, <<"Memory", "High">>>>
            rank(x) == CHOOSE k \in DOMAIN order : order[k] = x
        IN  /\ <<"Graphics", "Critical">> \in given <=> average_fps < 30
            /\ <<"Graphics", "Medium">> \in given
                  <=> (30 <= average_fps /\ average_fps < 50)
            /\ <<"Stability", "High">> \in given <=> fps_variance > 100
            /\ <<"Memory", "High">> \in given <=> memory_usage > 80
            /\ given \subseteq {order[k] : k \in DOMAIN order}
            /\ \A i, j \in DOMAIN result :
                  i < j => rank(result[i]) < rank(result[j])
            /\ UNCHANGED <<now, trackerVars, monitorVars, driver, latencyVars,
                           poolVars, gpuVars>>]_vars

\* The advisor was consulted with a low frame rate, a high variance and a
\* high memory usage, after frames were recorded.
C15_Witness ==
    /\ op = <<"analyze_and_recommend", 81, 29, 101,
              <<<<"Graphics", "Critical">>, <<"Stability", "High">>,
                <<"Memory", "High">>>>>>
    /\ frame_times # <<>>

\* ----------------------------------------- a tracker fed uniform frames
\* The clock of the scenario ticks every hundredth of a millisecond.
Hundredths == 100
\* The capacity of a PerformanceMonitor's frame tracker, and the frames fed.
TrackerCapacity == 300
FramesFed == 300
\* The frame times fed, in hundredths of a millisecond: 16.67 ms and 40 ms.
UniformFrameTimes == {1667, 4000}

FeedInit ==
    /\ now = 0
    /\ op = <<"new">>
    /\ driver = NoDriver
    /\ TrackerNewAt(TrackerCapacity, Hundredths)
    /\ NoMonitor
    /\ NoLatency
    /\ PoolNew
    /\ NoGpu

\* One frame time passes: the same one as before each earlier frame.
FeedWait ==
    /\ now = last_frame_time
    /\ Len(recorded) < FramesFed
    /\ \E t \in UniformFrameTimes :
          /\ \A i \in DOMAIN recorded : recorded[i] = t
          /\ now' = now + t
    /\ op' = <<"tick">>
    /\ UNCHANGED <<trackerVars, monitorVars, driver, latencyVars, poolVars, gpuVars>>

FeedFrame ==
    /\ now > last_frame_time
    /\ op' = <<"record_frame">>
    /\ RecordFrame(FramesFed)
    /\ UNCHANGED <<now, monitorVars, driver, latencyVars, poolVars, gpuVars>>

FeedNext == FeedWait \/ FeedFrame

FeedSpec == FeedInit /\ [][FeedNext]_vars

\* C16: while the frames fed are all 16.67 ms long, no frame counts as dropped
\* at 33.33 ms; once 500 ms of them have been recorded (30 frames)
\* current_fps() is within 1 of 60; and after 300 of them the performance
\* score is above 60.
C16_UniformFrames ==
    (resolution = 100 /\ \A i \in DOMAIN recorded : recorded[i] = 1667) =>
        /\ detect_frame_drops(3333) = <<>>
        /\ Len(recorded) >= 30 =>
              /\ 59 * current_fps.d <= current_fps.n
              /\ current_fps.n <= 61 * current_fps.d
        /\ Len(recorded) = 300 =>
              \A score \in calculate_score : score # None /\ score[1] > 60

\* 300 frames of 16.67 ms have been fed.
C16_Witness ==
    /\ Len(recorded) = 300
    /\ Len(frame_times) = 300
    /\ \A i \in DOMAIN recorded : recorded[i] = 1667
    /\ now = 300 * 1667
    /\ calculate_score = {Some(69)}

\* C17: current_fps changes only in a record_frame() call (or in reset()).
\* A record_frame() call made 500 ms or more after the last recomputation
\* sets it to the frames counted since then, this one included, divided by
\* the seconds elapsed, and sets the counter to 0; any other record_frame()
\* call leaves it alone and adds 1 to the counter.
C17_CachedFps ==
    [][/\ current_fps' # current_fps => op'[1] \in {"record_frame", "reset"}
       /\ op'[1] = "record_frame" =>
            LET elapsed == now - last_fps_update
            IN  IF elapsed >= 500
                THEN /\ current_fps'.n * elapsed
                            = current_fps'.d * (frame_count + 1) * 1000
                     /\ current_fps'.d > 0
                     /\ frame_count' = 0
                ELSE /\ current_fps' = current_fps
                     /\ frame_count' = frame_count + 1]_vars

\* Two frames were counted over 530 ms, and the FPS was recomputed at the
\* second.
C17_Witness ==
    /\ op = <<"record_frame">>
    /\ recorded = <<30, 500>>
    /\ frame_count = 0
    /\ last_fps_update = 530
    /\ current_fps = [n |-> 200, d |-> 53]

\* C18: reset() empties the buffer and sets the counter and current_fps to 0
\* while keeping the capacity, which leaves the tracker as one freshly
\* constructed with that capacity, every statistic 0; a reset() right after
\* a reset() changes nothing.
C18_ResetFresh ==
    [][op'[1] = "reset" =>
        /\ frame_times' = <<>>
        /\ frame_count' = 0
        /\ current_fps' = Zero
        /\ max_samples' = max_samples
        /\ TrackerNewAt(max_samples, resolution)'
        /\ average_frame_time' = Zero
        /\ frame_time_variance' = Zero
        /\ \A p \in Percentiles : percentile_frame_time(p)' = Zero
        /\ detect_frame_drops(DropThreshold)' = <<>>
        /\ (op[1] = "reset" /\ now' = now) => UNCHANGED trackerVars]_vars

\* reset() has cleared a full buffer, 500 ms or more after construction.
C18_Witness ==
    /\ op = <<"reset", 2>>
    /\ max_samples = 2
    /\ now >= 500
    /\ frame_times = <<>>
    /\ current_fps = Zero
    /\ last_frame_time = now

\* C19: record_ping(latency) adds 1 to packets_received and appends latency
\* to the ping history, evicting the oldest entry beyond the capacity; if the
\* ping history then holds 2 entries or more it appends one jitter value, the
\* absolute difference of latency and the latency recorded before it, and
\* otherwise it leaves the jitter history alone.
C19_RecordPing ==
    [][op'[1] = "record_ping" =>
        LET latency == op'[2]
            previous == ping_history[Len(ping_history)]
            difference == IF latency >= previous THEN latency - previous
                          ELSE previous - latency
        IN  /\ packets_received' = packets_received + 1
            /\ ping_history' =
                  LastN(Append(ping_history, latency), latency_max_history)
            /\ IF Len(ping_history') >= 2
               THEN /\ jitter_history' # <<>>
                    /\ jitter_history'[Len(jitter_history')] = difference
                    /\ jitter_history' =
                          LastN(Append(jitter_history, difference),
                                latency_max_history)
               ELSE jitter_history' = jitter_history
            /\ UNCHANGED <<packet_loss, packets_sent, latency_max_history>>]_vars

\* A ping faster than the one before it was recorded into a full history.
C19_Witness ==
    /\ op = <<"record_ping", 40>>
    /\ latency_max_history = 2
    /\ pinged = <<1000, 100, 40>>
    /\ ping_history = <<100, 40>>
    /\ jitter_history = <<900, 60>>
    /\ packets_received = 3

\* The jitter values of a run of pings: the absolute differences of
\* neighbours.
JittersOf(pings) ==
    [i \in 1..(Len(pings) - 1) |->
        IF pings[i + 1] >= pings[i] THEN pings[i + 1] - pings[i]
        ELSE pings[i] - pings[i + 1]]

\* C20: the ping history and the jitter history never hold more than
\* max_history entries; the ping history is the max_history most recent
\* pings in arrival order, and the jitter history (which a capacity below 2
\* keeps empty) the max_history most recent jitter values in arrival order.
C20_LatencyFifo ==
    /\ Len(ping_history) <= latency_max_history
    /\ Len(jitter_history) <= latency_max_history
    /\ ping_history = LastN(pinged, latency_max_history)
    /\ jitter_history =
          IF latency_max_history < 2 THEN <<>>
          ELSE LastN(JittersOf(pinged), latency_max_history)

\* More jitter values than the capacity were appended, the evicted one
\* different from the ones kept.
C20_Witness ==
    /\ latency_max_history = 2
    /\ pinged = <<40, 1000, 100, 50>>
    /\ ping_history = <<100, 50>>
    /\ jitter_history = <<900, 50>>

\* ------------------------------------------------- the profile of a session
\* Time that passes between two calls while a session is profiled.
ProfileDelays == {250, 500}

ProfileInit ==
    /\ now = 0
    /\ op = <<"new">>
    /\ driver = NoDriver
    /\ \E rate \in SamplingRates, cap \in 0..MaxHistory : MonitorNew(rate, cap)
    /\ NoLatency
    /\ PoolNew
    /\ NoGpu

ProfileNext ==
    \/ Advance(ProfileDelays, MaxProfileTime)
    \/ /\ op' = <<"start_frame">>
       /\ RecordFrame(MaxProfileFrames)
       /\ UNCHANGED <<now, monitorVars, driver, latencyVars, poolVars, gpuVars>>
    \/ Sample(sample_cpu_usage, sample_memory_usage)

ProfileSpec == ProfileInit /\ [][ProfileNext]_vars

\* The profile's average_fps and fps_variance are the mean and the sample
\* variance (0 for fewer than 2 values) of the non-zero frame_rate values of
\* the history entries, 0 when there are none.  The zero entries add nothing
\* to the sum or to the sum of squares, and the variance is
\* (n * sum of squares - square of the sum) / (n * (n - 1)).
ProfileFpsOfNonZero ==
    LET p == calculate_profile("game")
        rates == [i \in DOMAIN history |-> history[i].frame_rate]
        n == Cardinality({i \in DOMAIN history : rates[i] # Zero})
        total == RatSum(rates)
        squares == RatSum([i \in DOMAIN history |->
                              Rat(rates[i].n * rates[i].n, rates[i].d * rates[i].d)])
        spread == RatAdd(Rat(n * squares.n, squares.d),
                         Rat(-(total.n * total.n), total.d * total.d))
    IN  /\ p.average_fps = IF n = 0 THEN Zero ELSE Rat(total.n, total.d * n)
        /\ p.fps_variance =
              IF n < 2 THEN Zero ELSE Rat(spread.n, spread.d * n * (n - 1))

\* C21 as stated: average_fps and fps_variance are the mean and the sample
\* variance of the non-zero frame_rate values of the history entries, and
\* min_frame_time and max_frame_time the least and the greatest frame_time_ms
\* of all history entries.
C21_AsStated ==
    LET p == calculate_profile("game")
        times == {history[i].frame_time_ms : i \in DOMAIN history}
    IN  /\ ProfileFpsOfNonZero
        /\ history # <<>> =>
              /\ p.min_frame_time \in times
              /\ \A t \in times : ~RatLess(t, p.min_frame_time)
              /\ p.max_frame_time \in times
              /\ \A t \in times : ~RatLess(p.max_frame_time, t)

\* C21 as amended: min_frame_time and max_frame_time are the least and the
\* greatest of the frame_time_ms values above 0 of the history entries, and 0
\* when there are none.
C21_Amended ==
    LET p == calculate_profile("game")
        times == {history[i].frame_time_ms : i \in DOMAIN history} \ {Zero}
    IN  /\ ProfileFpsOfNonZero
        /\ times = {} => p.min_frame_time = Zero /\ p.max_frame_time = Zero
        /\ times # {} =>
              /\ p.min_frame_time \in times
              /\ \A t \in times : ~RatLess(t, p.min_frame_time)
              /\ p.max_frame_time \in times
              /\ \A t \in times : ~RatLess(p.max_frame_time, t)

\* The history holds a snapshot taken before any frame and one taken after
\* the FPS was computed.
C21_Witness ==
    /\ Len(history) = 2
    /\ history[1].frame_time_ms = Zero
    /\ history[2].frame_time_ms.n > 0
    /\ history[2].frame_rate.n > 0
    /\ calculate_profile("game").min_frame_time = history[2].frame_time_ms
    /\ calculate_profile("game").average_fps = history[2].frame_rate

\* C22: in the profile, total_playtime_ms is the length of the history times
\* sampling_rate, frame_drops the number of frame times in the tracker's
\* buffer above 33.33 ms, and percentile_95_frame_time the tracker's
\* percentile_frame_time(95), whatever the history holds.
C22_LiveTrackerFields ==
    LET p == calculate_profile("game")
        dropped == {i \in DOMAIN frame_times : 100 * frame_times[i] > 3333}
    IN  /\ p.total_playtime_ms = Len(history) * sampling_rate
        /\ p.frame_drops = Cardinality(dropped)
        /\ p.percentile_95_frame_time = percentile_frame_time(95)
        /\ IF frame_times = <<>> THEN p.percentile_95_frame_time = Zero
           ELSE IsPercentileOf(p.percentile_95_frame_time, 95, frame_times)

\* Two snapshots are in the history, none of them holding the frame times
\* that the tracker's buffer holds now, one of which counts as dropped.
C22_Witness ==
    /\ Len(history) = 2
    /\ Len(frame_times) = 2
    /\ frame_times[1] > frame_times[2]
    /\ frame_times[2] = 0
    /\ calculate_profile("game").frame_drops = 1
    /\ calculate_profile("game").percentile_95_frame_time.n = frame_times[1]
    /\ calculate_profile("game").total_playtime_ms = 200
    /\ \A i \in DOMAIN history :
          history[i].frame_time_ms # average_frame_time

\* C23: a sample() call made before sampling_rate has elapsed returns no
\* snapshot and leaves metrics, the history, the last-sample time and the
\* frame tracker as they were.
C23_RejectedNoOp ==
    [][(op'[1] = "sample" /\ now - last_sample < sampling_rate) =>
        /\ ret' = None
        /\ Len(op') = 1
        /\ UNCHANGED <<metrics, history, last_sample, accepted, sampling_rate,
                       max_history, trackerVars>>]_vars

\* A call was rejected 50 ms after a sample had been accepted and a frame
\* recorded.
C23_Witness ==
    /\ op = <<"sample">>
    /\ ret = None
    /\ Len(accepted) = 1
    /\ now = last_sample + 50
    /\ metrics.timestamp = EpochMs + last_sample
    /\ frame_times # <<>>

\* -------------------------------------------------------------- queries
\* The threshold_ms arguments tried, in hundredths of a millisecond.
Thresholds == {0, 3333, 25000}

\* detect_frame_drops(threshold_ms) is called; op records the argument and
\* the result.
DetectFrameDrops(threshold) ==
    /\ op' = <<"detect_frame_drops", threshold, detect_frame_drops(threshold)>>
    /\ UNCHANGED <<now, trackerVars, monitorVars, driver, latencyVars, poolVars, gpuVars>>

\* calculate_profile(game_id) is called; op records the result.
CalculateProfile(game_id) ==
    /\ op' = <<"calculate_profile", calculate_profile(game_id)>>
    /\ UNCHANGED <<now, trackerVars, monitorVars, driver, latencyVars, poolVars, gpuVars>>

QueryNext ==
    \/ Advance(ProfileDelays, MaxQueryTime)
    \/ StartFrame
    \/ Sample(sample_cpu_usage, sample_memory_usage)
    \/ \E threshold \in Thresholds : DetectFrameDrops(threshold)
    \/ CalculateProfile("game")

QuerySpec == ProfileInit /\ [][QueryNext]_vars

\* C24: detect_frame_drops(threshold_ms) returns, in ascending order, the
\* indices (from 0) of exactly the buffered frame times above threshold_ms;
\* it and calculate_profile(), the score included, change no state, so that
\* a second call in the state they leave, which is the state they were
\* called in, gives the same result.
C24_PureQueries ==
    [][/\ op'[1] = "detect_frame_drops" =>
            LET threshold == op'[2]
                result == op'[3]
            IN  /\ \A i, j \in DOMAIN result : i < j => result[i] < result[j]
                /\ {result[i] : i \in DOMAIN result}
                      = {k \in 0..(Len(frame_times) - 1) :
                            100 * frame_times[k + 1] > threshold}
                /\ \E t \in Thresholds :
                      t = threshold /\ result = detect_frame_drops(t)'
       /\ op'[1] = "calculate_profile" =>
            op'[2] = calculate_profile("game")
       /\ op'[1] \in {"detect_frame_drops", "calculate_profile"} =>
            UNCHANGED <<now, trackerVars, monitorVars, driver, latencyVars,
                        poolVars, gpuVars>>]_vars

\* The frame times are 250 and 500 ms, and the frames above 250 ms were asked
\* for.
C24_Witness ==
    /\ op = <<"detect_frame_drops", 25000, <<1>>>>
    /\ frame_times = <<250, 500>>
    /\ history # <<>>

\* ------------------------------------------------ the GPU tracker's frames
GpuInit ==
    /\ now = 0
    /\ op = <<"new">>
    /\ driver = NoDriver
    /\ NoTracker
    /\ NoMonitor
    /\ NoLatency
    /\ PoolNew
    /\ GpuNew

GpuNext ==
    \/ GpuBeginFrame
    \/ \E vertices \in VertexCounts, triangles \in TriangleCounts :
          RecordDrawCall(vertices, triangles)
    \/ \E time \in RenderTimes : GpuEndFrame(time)

GpuSpec == GpuInit /\ [][GpuNext]_vars

\* The vertices and the triangles of the draw calls since new() or the last
\* begin_frame().
VerticesDrawn == WideSum([i \in DOMAIN draws |-> draws[i][1]])
TrianglesDrawn == WideSum([i \in DOMAIN draws |-> draws[i][2]])

\* C25: begin_frame() resets draw_calls, vertex_count and triangle_count to
\* 0; until the next begin_frame(), draw_calls is the number of
\* record_draw_call() calls and vertex_count and triangle_count are the sums
\* of their arguments; end_frame() on a tracker without a backend device
\* returns no render time and leaves the GPU frame-time buffer as it is; the
\* buffer never holds more than 300 entries.
C25_AsStated ==
    [][/\ op'[1] = "begin_frame" =>
            /\ draw_calls' = 0
            /\ vertex_count' = Wide(0, 0)
            /\ triangle_count' = Wide(0, 0)
       /\ draw_calls' = Len(draws')
       /\ vertex_count' = VerticesDrawn'
       /\ triangle_count' = TrianglesDrawn'
       /\ (op'[1] = "gpu_end_frame" /\ vulkan_device = None
              /\ directx_device = None) =>
            op'[2] = None /\ UNCHANGED gpu_frame_times
       /\ Len(gpu_frame_times') <= 300]_vars

\* What C25 says, of the draw calls whose sums fit in a u32.
C25_WithinU32 ==
    [][/\ op'[1] = "begin_frame" =>
            /\ draw_calls' = 0
            /\ vertex_count' = Wide(0, 0)
            /\ triangle_count' = Wide(0, 0)
       /\ (FitsU32(VerticesDrawn') /\ FitsU32(TrianglesDrawn')) =>
            /\ draw_calls' = Len(draws')
            /\ vertex_count' = VerticesDrawn'
            /\ triangle_count' = TrianglesDrawn'
       /\ (op'[1] = "gpu_end_frame" /\ vulkan_device = None
              /\ directx_device = None) =>
            op'[2] = None /\ UNCHANGED gpu_frame_times
       /\ Len(gpu_frame_times') <= 300]_vars

\* The buffer is full, the device has returned one more render time, and two
\* draw calls have been recorded since begin_frame().
C25_Reached ==
    /\ op[1] = "gpu_end_frame" /\ op[2] # None
    /\ Len(gpu_frame_times) = 300
    /\ draw_calls = 2
    /\ vertex_count = Wide(32768, 3)


\* C26: the gate is armed at construction: last_sample starts as the
\* construction time (instant 0 here), so every sample() made less than
\* sampling_rate after new() returns no snapshot and leaves the history
\* empty.
C26_ArmedAtConstruction ==
    now < sampling_rate =>
        /\ ret = None
        /\ history = <<>>
        /\ accepted = <<>>
        /\ last_sample = 0

\* sample() was called 50 ms after the construction of a monitor that keeps
\* a history, after a frame.
C26_Witness ==
    /\ op = <<"sample">>
    /\ now = 50
    /\ sampling_rate = 100
    /\ max_history > 0
    /\ frame_count > 0
    /\ ret = None
    /\ history = <<>>

\* C27: the playtime of a profile is computed from the bounded history: it
\* is at most max_history * sampling_rate in every state, and from the
\* max_history-th accepted sample on it is that product however many more
\* samples are accepted.
C27_PlaytimeBounded ==
    LET playtime == calculate_profile("game").total_playtime_ms
    IN  /\ playtime <= max_history * sampling_rate
        /\ Len(accepted) >= max_history =>
              playtime = max_history * sampling_rate
        /\ Len(accepted) <= max_history =>
              playtime = Len(accepted) * sampling_rate

\* A monitor that keeps two snapshots has accepted a third.
C27_Witness ==
    /\ max_history = 2
    /\ Len(accepted) = 3
    /\ op[1] = "sample" /\ ret # None
    /\ calculate_profile("game").total_playtime_ms = 200

\* ------------------------------------- the pool's public operations alone
PoolQueryNext ==
    \/ Tick
    \/ QueueLength
    \/ ActiveTasks
    \/ CompletedTasks
    \/ \E window_secs \in WindowSecs : Throughput(window_secs)
    \/ AverageQueueTime

PoolQuerySpec == PoolInit /\ [][PoolQueryNext]_vars

\* C28: no public operation of ThreadPoolMonitor modifies queue_length,
\* active_tasks, completed_tasks or total_tasks: after any sequence of them
\* the four counters are 0, and throughput() and average_queue_time() return
\* 0.
C28_AsStated ==
    /\ \A c \in Counters : Load(c) = 0
    /\ op[1] \in {"queue_length", "active_tasks", "completed_tasks"} =>
          op[2] = 0
    /\ op[1] = "throughput" => op[2][2] = Zero
    /\ op[1] = "average_queue_time" => op[2] = Zero

\* What C28 says, of the calls of throughput() with a window other than 0.
C28_NonZeroWindow ==
    /\ \A c \in Counters : Load(c) = 0
    /\ op[1] \in {"queue_length", "active_tasks", "completed_tasks"} =>
          op[2] = 0
    /\ (op[1] = "throughput" /\ op[2][1] # 0) => op[2][2] = Zero
    /\ (op[1] = "throughput" /\ op[2][1] = 0) => op[2][2] = NaN
    /\ op[1] = "average_queue_time" => op[2] = Zero

\* The fields of PerformanceMetrics that no method of PerformanceMonitor
\* assigns.
Unwritten ==
    {"gpu_usage", "render_time_ms", "update_time_ms", "input_latency_ms",
     "network_latency_ms"}

\* C29: PerformanceMonitor writes only timestamp, frame_rate, frame_time_ms,
\* cpu_usage and memory_usage: after any sequence of start_frame(),
\* end_frame() and sample() calls the other five fields are 0 in what
\* get_metrics() returns, in what sample() returns and in every snapshot of
\* the history.
C29_UnwrittenFieldsZero ==
    \A f \in Unwritten :
        /\ metrics[f] = 0
        /\ op[1] = "get_metrics" => op[3][f] = 0
        /\ ret # None => ret[1][f] = 0
        /\ \A i \in DOMAIN history : history[i][f] = 0

\* get_metrics() has returned metrics that a sample() and an end_frame()
\* have written, and the history holds a snapshot.
C29_Witness ==
    /\ op[1] = "get_metrics"
    /\ op[3].cpu_usage = 45
    /\ op[3].timestamp > 0
    /\ op[3].frame_time_ms # Zero
    /\ history # <<>>

\* C30: in every state reachable by any interleaving of increment_sent(),
\* record_packet_loss() and record_ping(), packet_loss_rate() lies in
\* [0, 100].
C30_AsStated ==
    /\ packet_loss_rate.n >= 0
    /\ packet_loss_rate.n <= 100 * packet_loss_rate.d

\* C30, amended: packet_loss_rate() is never below 0; it lies in [0, 100]
\* in the states where record_packet_loss() has been called at most as often
\* as increment_sent() and where nothing has been sent, and it is above 100
\* where more losses than transmissions have been recorded after the first
\* transmission.
C30_Amended ==
    /\ packet_loss_rate.n >= 0
    /\ packet_loss <= packets_sent =>
          packet_loss_rate.n <= 100 * packet_loss_rate.d
    /\ packets_sent = 0 => packet_loss_rate = Zero
    /\ (packets_sent > 0 /\ packet_loss > packets_sent) =>
          packet_loss_rate.n > 100 * packet_loss_rate.d

\* One of two packets sent was lost and the other one answered.
C30_Witness ==
    /\ packets_sent = 2
    /\ packet_loss = 1
    /\ packets_received = 1
    /\ packet_loss_rate = [n |-> 50, d |-> 1]

=============================================================================
